---- MODULE Spec2Model ----
(***************************************************************************)
(* Model of the device/backend resource manager of hal (src/src/device.rs).*)
(*                                                                         *)
(* The external compute runtime (the `af` crate) is process-wide state: an *)
(* active backend and, for each backend, an active device id.  Every call  *)
(* into the runtime is fallible; a failing call is chosen by the `fail`    *)
(* input of an operation (the index of the runtime call that fails, 0 for  *)
(* none).  A panic (unwrap on Err, failed assert!) ends the process.       *)
(***************************************************************************)
EXTENDS Integers, Sequences, FiniteSets, TLC

\* Largest device count a backend reports.
MaxDevices == 2
\* Array contents are drawn from 1..MaxVal.
MaxVal == 2

\* Longest pred / target array handed to the loss layer.
MaxLen == 2

\* af::Backend kinds the runtime may report as available.
Backends == {"CPU", "CUDA"}

VARIABLES
  available,     \* what af::get_available_backends() reports, in order
  device_count,  \* what af::device_count() reports under each backend
  pc,            \* "start" (before new), "returned" (a call has just
                 \* returned), "ready" (handle idle), "panicked"
  devices,       \* DeviceManagerFactory.devices
  current,       \* DeviceManagerFactory.current
  afBackend,     \* the runtime's active backend
  afDevice,      \* the runtime's active device id of each backend
  last,          \* record of the last operation: arguments, calls, outcome
  loss,          \* a call into the loss layer: name, arrays, returned value
  threads,       \* the position of each caller that shares the handle
  overlapped     \* a call has started while another was in progress

vars == <<available, device_count, pc, devices, current, afBackend, afDevice,
          last, loss, threads, overlapped>>

----------------------------------------------------------------------------
\* struct Device { backend, id }
Device(b, i) == [backend |-> b, id |-> i]

\* Placeholder where no Device / Array exists.
NoDevice == [backend |-> "NONE", id |-> -1]
NoArray == [dev |-> NoDevice, data |-> 0]

\* Devices a caller may pass: ids up to MaxDevices are never registered.
DeviceArgs == {Device(b, i) : b \in Backends, i \in 0..MaxDevices}

Values == 1..MaxVal

\* Outcome marker of a download that the runtime rejects.
Fatal == -1

\* Lists of distinct backends the runtime may report.
AvailableLists ==
  {s \in UNION {[1..n -> Backends] : n \in 0..Cardinality(Backends)} :
     \A i, j \in DOMAIN s : i # j => s[i] # s[j]}

\* One runtime call in an operation's log.  For "host" and "new" the
\* (backend, id) fields hold the runtime's active context at the call.
Ev(c, b, i, ok) == [call |-> c, backend |-> b, id |-> i, ok |-> ok]

\* The runtime's active (backend, device id) pair.
ActiveOf(rt) == Device(rt.backend, rt.device[rt.backend])

Active == ActiveOf([backend |-> afBackend, device |-> afDevice])

----------------------------------------------------------------------------
\* af::set_backend / af::set_device on the runtime state rt.
af_set_backend(rt, b, ok) == IF ok THEN [rt EXCEPT !.backend = b] ELSE rt

af_set_device(rt, id, ok) ==
  IF ok THEN [rt EXCEPT !.device[rt.backend] = id] ELSE rt

\* Mutation: the device switch is left out.
set_device_backend_only(rt, device, fail) ==
  LET okB == fail # 1
      rt1 == af_set_backend(rt, device.backend, okB)
  IN  [rt |-> rt1, events |-> <<Ev("set_backend", device.backend, -1, okB)>>,
       ok |-> okB]

\* Mutation: the device is switched before the backend.
set_device_swapped(rt, device, fail) ==
  LET okD == fail # 1
      rt1 == af_set_device(rt, device.id, okD)
      e1  == Ev("set_device", "-", device.id, okD)
  IN  IF ~okD THEN [rt |-> rt1, events |-> <<e1>>, ok |-> FALSE]
      ELSE LET okB == fail # 2
               rt2 == af_set_backend(rt1, device.backend, okB)
               e2  == Ev("set_backend", device.backend, -1, okB)
           IN  [rt |-> rt2, events |-> <<e1, e2>>, ok |-> okB]

\* fn set_device(device): backend switch, then device switch; either panics.
set_device(rt, device, fail) ==
  LET okB == fail # 1
      rt1 == af_set_backend(rt, device.backend, okB)
      e1  == Ev("set_backend", device.backend, -1, okB)
  IN  IF ~okB THEN [rt |-> rt1, events |-> <<e1>>, ok |-> FALSE]
      ELSE LET okD == fail # 2
               rt2 == af_set_device(rt1, device.id, okD)
               e2  == Ev("set_device", "-", device.id, okD)
           IN  [rt |-> rt2, events |-> <<e1, e2>>, ok |-> okD]

\* Mutation: the loop runs once too often.
create_devices_inclusive(backend, num_devices) ==
  [i \in 1..(num_devices + 1) |-> Device(backend, i - 1)]

\* Mutation: device ids are counted from one.
create_devices_from_one(backend, num_devices) ==
  [i \in 1..num_devices |-> Device(backend, i)]

\* fn create_devices(backend): the buffer pushed for i in 0..num_devices.
create_devices(backend, num_devices) ==
  [i \in 1..num_devices |-> Device(backend, i - 1)]

\* The loop of new(): devices.extend(create_devices(backend)) for the
\* first i available backends.
RECURSIVE Enumerate(_, _, _)
Enumerate(avail, counts, i) ==
  IF i = 0 THEN <<>>
  ELSE Enumerate(avail, counts, i - 1)
         \o create_devices(avail[i], counts[avail[i]])

\* Mutation: the first device is taken.
FirstDevice(devs) == devs[1]

\* devices.last().unwrap()
LastDevice(devs) == devs[Len(devs)]

\* Mutation: membership is not checked.
contains_anything(devs, device) == TRUE

\* self.devices.contains(&device)
contains(devs, device) == \E i \in DOMAIN devs : devs[i] = device

\* Mutation: mismatch on either field.
SwapGuardOr(c, device) == c.backend # device.backend \/ c.id # device.id

\* Mutation: the guard is dropped.
SwapGuardAlways(c, device) == TRUE

\* Mutation: only the backends are compared.
SwapGuardBackendOnly(c, device) == c.backend # device.backend

\* The guard of swap_device.
SwapGuard(c, device) == c.backend # device.backend /\ c.id # device.id

\* Mutation: the cached device is written before the runtime has switched.
swap_device_eager(devs, c, rt, device, fail) ==
  IF SwapGuard(c, device)
  THEN IF ~contains(devs, device)
       THEN [current |-> c, rt |-> rt, events |-> <<>>, ok |-> FALSE]
       ELSE LET r == set_device(rt, device, fail)
            IN  [current |-> device, rt |-> r.rt,
                 events |-> r.events, ok |-> r.ok]
  ELSE [current |-> c, rt |-> rt, events |-> <<>>, ok |-> TRUE]

\* Mutation: the cached device is never written.
swap_device_forgets(devs, c, rt, device, fail) ==
  IF SwapGuard(c, device)
  THEN IF ~contains(devs, device)
       THEN [current |-> c, rt |-> rt, events |-> <<>>, ok |-> FALSE]
       ELSE LET r == set_device(rt, device, fail)
            IN  [current |-> c, rt |-> r.rt,
                 events |-> r.events, ok |-> r.ok]
  ELSE [current |-> c, rt |-> rt, events |-> <<>>, ok |-> TRUE]

\* swap_device on a handle with catalog devs and cached device c.
swap_device(devs, c, rt, device, fail) ==
  IF SwapGuard(c, device)
  THEN IF ~contains(devs, device)
       THEN [current |-> c, rt |-> rt, events |-> <<>>, ok |-> FALSE]
       ELSE LET r == set_device(rt, device, fail)
            IN  [current |-> IF r.ok THEN device ELSE c, rt |-> r.rt,
                 events |-> r.events, ok |-> r.ok]
  ELSE [current |-> c, rt |-> rt, events |-> <<>>, ok |-> TRUE]

\* swap_array_backend: switch to input_device, download to the host
\* buffer, switch to target_device, construct the new array.  `und` is what
\* the download yields when the array's device is not the active context.
swap_array_backend(devs, c, rt, input, input_device, target_device, fail, und) ==
  LET r1 == swap_device(devs, c, rt, input_device, fail)
      n1 == Len(r1.events)
      ctx1 == ActiveOf(r1.rt)
      okDims == fail # n1 + 1
      eDims == Ev("dims", ctx1.backend, ctx1.id, okDims)
      legal == input.dev = ctx1
      okHost == fail # n1 + 2 /\ (legal \/ und # Fatal)
      eHost == Ev("host", ctx1.backend, ctx1.id, okHost)
      buffer == IF legal THEN input.data ELSE und
      r2 == swap_device(devs, r1.current, r1.rt, target_device, fail - (n1 + 2))
      n2 == Len(r2.events)
      ctx2 == ActiveOf(r2.rt)
      okNew == fail # n1 + 2 + n2 + 1
      eNew == Ev("new", ctx2.backend, ctx2.id, okNew)
  IN  IF ~r1.ok
      THEN [current |-> r1.current, rt |-> r1.rt, events |-> r1.events,
            ok |-> FALSE, result |-> NoArray]
      ELSE IF ~okDims
      THEN [current |-> r1.current, rt |-> r1.rt,
            events |-> r1.events \o <<eDims>>, ok |-> FALSE, result |-> NoArray]
      ELSE IF ~okHost
      THEN [current |-> r1.current, rt |-> r1.rt,
            events |-> r1.events \o <<eDims, eHost>>, ok |-> FALSE,
            result |-> NoArray]
      ELSE IF ~r2.ok
      THEN [current |-> r2.current, rt |-> r2.rt,
            events |-> r1.events \o <<eDims, eHost>> \o r2.events,
            ok |-> FALSE, result |-> NoArray]
      ELSE [current |-> r2.current, rt |-> r2.rt,
            events |-> r1.events \o <<eDims, eHost>> \o r2.events \o <<eNew>>,
            ok |-> okNew,
            result |-> IF okNew THEN [dev |-> ctx2, data |-> buffer]
                       ELSE NoArray]

\* The j-th runtime call of the enumeration loop of new(): set_backend and
\* device_count of create_devices, for each available backend in turn.
EnumEv(avail, j, ok) ==
  IF j % 2 = 1 THEN Ev("set_backend", avail[(j + 1) \div 2], -1, ok)
  ELSE Ev("device_count", avail[j \div 2], -1, ok)

\* DeviceManagerFactory::new() as a function of the environment.
new(avail, counts, rt, fail) ==
  LET n == Len(avail)
      okAvail == fail # 1
      eAvail == Ev("get_available_backends", "-", -1, okAvail)
      jf == fail - 1
      idx == jf \div 2
      devs == Enumerate(avail, counts, n)
      rtE == IF n = 0 THEN rt ELSE af_set_backend(rt, avail[n], TRUE)
      evE == <<eAvail>> \o [j \in 1..(2 * n) |-> EnumEv(avail, j, TRUE)]
  IN  IF ~okAvail
      THEN [devices |-> <<>>, current |-> NoDevice, rt |-> rt,
            events |-> <<eAvail>>, ok |-> FALSE]
      ELSE IF fail \in 2..(2 * n + 1)
      THEN [devices |-> <<>>, current |-> NoDevice,
            rt |-> IF idx = 0 THEN rt ELSE af_set_backend(rt, avail[idx], TRUE),
            events |-> <<eAvail>> \o [j \in 1..jf |-> EnumEv(avail, j, j # jf)],
            ok |-> FALSE]
      ELSE IF ~(Len(devs) > 0)
      THEN [devices |-> <<>>, current |-> NoDevice, rt |-> rtE,
            events |-> evE, ok |-> FALSE]
      ELSE LET cur == LastDevice(devs)
               r == set_device(rtE, cur, fail - (2 * n + 1))
           IN  [devices |-> IF r.ok THEN devs ELSE <<>>,
                current |-> IF r.ok THEN cur ELSE NoDevice,
                rt |-> r.rt, events |-> evE \o r.events, ok |-> r.ok]

----------------------------------------------------------------------------
Rt == [backend |-> afBackend, device |-> afDevice]

\* The log when no call has been made or the last one has been consumed.
NoCall == [op |-> "none", device |-> NoDevice, source |-> NoDevice,
           input |-> NoArray, pre |-> NoDevice, events |-> <<>>,
           ok |-> TRUE, result |-> NoArray]

\* The callers that share the handle.
Threads == {"a", "b"}

\* A caller that is not inside a call.
IdleThread == [pc |-> "idle", op |-> "none", phase |-> 0, source |-> NoDevice,
               target |-> NoDevice, hostCtx |-> NoDevice, newCtx |-> NoDevice]

\* No call into the loss layer has been made.
NoResult == [tag |-> "None", val |-> "-"]
NoLoss == [fn |-> "none", name |-> "-", pred |-> <<>>, target |-> <<>>,
           out |-> NoResult]

Init ==
  /\ available \in AvailableLists
  /\ device_count \in [Backends -> 0..MaxDevices]
  /\ \A b \in Backends :
       (\A i \in DOMAIN available : available[i] # b) => device_count[b] = 0
  /\ pc = "start"
  /\ devices = <<>>
  /\ current = NoDevice
  /\ afBackend \in Backends
  /\ afDevice = [b \in Backends |-> 0]
  /\ last = NoCall
  /\ loss = NoLoss
  /\ threads = [t \in Threads |-> IdleThread]
  /\ overlapped = FALSE

\* DeviceManagerFactory::new()
New ==
  /\ pc = "start"
  /\ \E fail \in 0..(2 * Cardinality(Backends) + 3) :
       \E r \in {new(available, device_count, Rt, fail)} :
           /\ pc' = IF r.ok THEN "returned" ELSE "panicked"
           /\ devices' = r.devices
           /\ current' = r.current
           /\ afBackend' = r.rt.backend
           /\ afDevice' = r.rt.device
           /\ last' = [op |-> "new", device |-> NoDevice, source |-> NoDevice,
                       input |-> NoArray, pre |-> NoDevice,
                       events |-> r.events, ok |-> r.ok, result |-> NoArray]
  /\ UNCHANGED <<available, device_count, loss, threads, overlapped>>

\* Mutation: a device that is not in the catalog is registered.
SwapDevice_registers ==
  /\ pc = "ready"
  /\ \E device \in DeviceArgs, fail \in 0..2 :
       \E r \in {swap_device(devices, current, Rt, device, fail)} :
           /\ pc' = IF r.ok THEN "returned" ELSE "panicked"
           /\ current' = r.current
           /\ afBackend' = r.rt.backend
           /\ afDevice' = r.rt.device
           /\ devices' = IF contains(devices, device) THEN devices
                         ELSE Append(devices, device)
           /\ last' = [op |-> "swap_device", device |-> device,
                       source |-> NoDevice, input |-> NoArray,
                       pre |-> current, events |-> r.events, ok |-> r.ok,
                       result |-> NoArray]
  /\ UNCHANGED <<available, device_count, loss, threads, overlapped>>

\* handle.swap_device(device)
SwapDevice ==
  /\ pc = "ready"
  /\ \E device \in DeviceArgs, fail \in 0..2 :
       \E r \in {swap_device(devices, current, Rt, device, fail)} :
           /\ pc' = IF r.ok THEN "returned" ELSE "panicked"
           /\ current' = r.current
           /\ afBackend' = r.rt.backend
           /\ afDevice' = r.rt.device
           /\ last' = [op |-> "swap_device", device |-> device,
                       source |-> NoDevice, input |-> NoArray,
                       pre |-> current, events |-> r.events, ok |-> r.ok,
                       result |-> NoArray]
  /\ UNCHANGED <<available, device_count, devices, loss, threads, overlapped>>

\* Arrays that exist: created under a catalog device.
Arrays == {[dev |-> devices[i], data |-> v] : i \in DOMAIN devices, v \in Values}

\* handle.swap_array_backend(&input, input_device, target_device)
SwapArrayBackend ==
  /\ pc = "ready"
  /\ \E input \in Arrays, input_device \in DeviceArgs,
        target_device \in DeviceArgs, fail \in 0..7,
        und \in Values \cup {Fatal} :
       \E r \in {swap_array_backend(devices, current, Rt, input, input_device,
                                   target_device, fail, und)} :
           /\ pc' = IF r.ok THEN "returned" ELSE "panicked"
           /\ current' = r.current
           /\ afBackend' = r.rt.backend
           /\ afDevice' = r.rt.device
           /\ last' = [op |-> "swap_array_backend", device |-> target_device,
                       source |-> input_device, input |-> input,
                       pre |-> current, events |-> r.events, ok |-> r.ok,
                       result |-> r.result]
  /\ UNCHANGED <<available, device_count, devices, loss, threads, overlapped>>

\* The caller takes the returned value and is free to call again.
Return ==
  /\ pc = "returned"
  /\ pc' = "ready"
  /\ last' = NoCall
  /\ UNCHANGED <<available, device_count, devices, current, afBackend, afDevice,
                 loss, threads, overlapped>>

Next == New \/ SwapDevice \/ SwapArrayBackend \/ Return

Spec == Init /\ [][Next]_vars

----------------------------------------------------------------------------
(***************************************************************************)
(* The loss layer (src/src/loss.rs).  Arrays are sequences of small        *)
(* integers; a halved or averaged value is the fraction [num, den]; the    *)
(* logarithms of the cross entropy stay symbolic terms over the elements.  *)
(* `afOk` tells whether the runtime's array operations succeed: each is    *)
(* unwrapped, so a failing one panics.                                     *)
(***************************************************************************)
\* Names a caller may pass.
LossNames == {"l2", "mse", "cross_entropy", "bogus", "L2", "mse ", ""}

\* pred / target arrays.
LossArrays == UNION {[1..n -> 0..MaxVal] : n \in 1..MaxLen}

\* Result<_, HALError> of a dispatcher, or the panic of an unwrap.
Ok(v) == [tag |-> "Ok", val |-> v]
ErrUnknown == [tag |-> "Err", val |-> "UNKNOWN"]
Panic == [tag |-> "Panic", val |-> "unwrap"]

RECURSIVE SumSeq(_, _)
SumSeq(a, i) == IF i = 0 THEN 0 ELSE SumSeq(a, i - 1) + a[i]

\* af::sub(pred, target)
af_sub(a, b) == [i \in DOMAIN a |-> a[i] - b[i]]

\* (y - x) * (y - x)
l2_vec(pred, target) ==
  LET diff == af_sub(pred, target) IN [i \in DOMAIN diff |-> diff[i] * diff[i]]

\* 0.5 * (y - x) * (y - x)
mse_vec(pred, target) ==
  LET v == l2_vec(pred, target) IN [i \in DOMAIN v |-> [num |-> v[i], den |-> 2]]

\* -ylnx - [1-y]ln[1-x], element by element
cross_entropy_vec(pred, target) ==
  [i \in DOMAIN pred |-> [ce_x |-> pred[i], ce_y |-> target[i]]]

\* mean_all of l2_vec
l2(pred, target) ==
  LET v == l2_vec(pred, target) IN [num |-> SumSeq(v, Len(v)), den |-> Len(v)]

\* 0.5 * l2
mse(pred, target) ==
  LET m == l2(pred, target) IN [num |-> m.num, den |-> 2 * m.den]

\* sum_all of cross_entropy_vec
cross_entropy(pred, target) == [sum_all |-> cross_entropy_vec(pred, target)]

mse_derivative(pred, target) == af_sub(pred, target)

l2_derivative(pred, target) ==
  LET d == mse_derivative(pred, target) IN [i \in DOMAIN d |-> 2 * d[i]]

cross_entropy_derivative(pred, target) == mse_derivative(pred, target)

\* Mutation: the default arm falls back to the l2 loss.
get_loss_default(name, pred, target, afOk) ==
  IF name = "mse" THEN (IF afOk THEN Ok(mse(pred, target)) ELSE Panic)
  ELSE IF name = "cross_entropy"
  THEN (IF afOk THEN Ok(cross_entropy(pred, target)) ELSE Panic)
  ELSE (IF afOk THEN Ok(l2(pred, target)) ELSE Panic)

\* get_loss: match name { "l2", "mse", "cross_entropy", _ }
get_loss(name, pred, target, afOk) ==
  IF name = "l2" THEN (IF afOk THEN Ok(l2(pred, target)) ELSE Panic)
  ELSE IF name = "mse" THEN (IF afOk THEN Ok(mse(pred, target)) ELSE Panic)
  ELSE IF name = "cross_entropy"
  THEN (IF afOk THEN Ok(cross_entropy(pred, target)) ELSE Panic)
  ELSE ErrUnknown

\* get_loss_vec
get_loss_vec(name, pred, target, afOk) ==
  IF name = "l2" THEN (IF afOk THEN Ok(l2_vec(pred, target)) ELSE Panic)
  ELSE IF name = "mse" THEN (IF afOk THEN Ok(mse_vec(pred, target)) ELSE Panic)
  ELSE IF name = "cross_entropy"
  THEN (IF afOk THEN Ok(cross_entropy_vec(pred, target)) ELSE Panic)
  ELSE ErrUnknown

\* get_loss_derivative
get_loss_derivative(name, pred, target, afOk) ==
  IF name = "l2" THEN (IF afOk THEN Ok(l2_derivative(pred, target)) ELSE Panic)
  ELSE IF name = "mse"
  THEN (IF afOk THEN Ok(mse_derivative(pred, target)) ELSE Panic)
  ELSE IF name = "cross_entropy"
  THEN (IF afOk THEN Ok(cross_entropy_derivative(pred, target)) ELSE Panic)
  ELSE ErrUnknown

\* The caller holds a name and two arrays of one shape; the device manager
\* plays no part.
InitLoss ==
  /\ available = <<>>
  /\ device_count = [b \in Backends |-> 0]
  /\ pc = "start"
  /\ devices = <<>>
  /\ current = NoDevice
  /\ afBackend = "CPU"
  /\ afDevice = [b \in Backends |-> 0]
  /\ last = NoCall
  /\ threads = [t \in Threads |-> IdleThread]
  /\ overlapped = FALSE
  /\ loss \in {r \in [fn : {"none"}, name : LossNames, pred : LossArrays,
                       target : LossArrays, out : {NoResult}] :
                 Len(r.pred) = Len(r.target)}

devVars == <<available, device_count, pc, devices, current, afBackend,
             afDevice, last, threads, overlapped>>

GetLoss ==
  /\ \E afOk \in BOOLEAN :
       loss' = [loss EXCEPT !.fn = "get_loss",
                  !.out = get_loss(loss.name, loss.pred, loss.target, afOk)]
  /\ UNCHANGED devVars

GetLossVec ==
  /\ \E afOk \in BOOLEAN :
       loss' = [loss EXCEPT !.fn = "get_loss_vec",
                  !.out = get_loss_vec(loss.name, loss.pred, loss.target, afOk)]
  /\ UNCHANGED devVars

GetLossDerivative ==
  /\ \E afOk \in BOOLEAN :
       loss' = [loss EXCEPT !.fn = "get_loss_derivative",
                  !.out = get_loss_derivative(loss.name, loss.pred,
                                              loss.target, afOk)]
  /\ UNCHANGED devVars

NextLoss == GetLoss \/ GetLossVec \/ GetLossDerivative

SpecLoss == InitLoss /\ [][NextLoss]_vars

----------------------------------------------------------------------------
(***************************************************************************)
(* Two callers share the handle with no lock: each call is a sequence of   *)
(* steps, one per access to the cached device or to the runtime, and the   *)
(* steps of the two callers interleave freely.  Each caller makes one call *)
(* with catalog devices; the contents of the migrated array are left out,  *)
(* only the context of its download and construction is recorded.          *)
(* `overlapped` records that a call has started while another was in       *)
(* progress; while it is FALSE the calls have been serialized.             *)
(***************************************************************************)
\* The handle after a successful new().
InitConc ==
  /\ available \in AvailableLists
  /\ device_count \in [Backends -> 0..MaxDevices]
  /\ \A b \in Backends :
       (\A i \in DOMAIN available : available[i] # b) => device_count[b] = 0
  /\ Enumerate(available, device_count, Len(available)) # <<>>
  /\ pc = "ready"
  /\ devices = Enumerate(available, device_count, Len(available))
  /\ current = LastDevice(devices)
  /\ afBackend = current.backend
  /\ afDevice = [b \in Backends |-> IF b = current.backend THEN current.id ELSE 0]
  /\ last = NoCall
  /\ loss = NoLoss
  /\ threads = [t \in Threads |-> IdleThread]
  /\ overlapped = FALSE

\* The device argument of the swap_device call a caller is in.
DevOf(th) == IF th.phase = 1 THEN th.source ELSE th.target

\* Where a caller continues when its swap_device call returns.
AfterSwap(th) ==
  IF th.op = "swap_device" THEN [th EXCEPT !.pc = "done"]
  ELSE IF th.phase = 1 THEN [th EXCEPT !.pc = "host"]
  ELSE [th EXCEPT !.pc = "construct"]

\* Another caller is inside a call.
OtherBusy(t) == \E u \in Threads : u # t /\ threads[u].pc \notin {"idle", "done"}

\* The devices of the catalog.
CatalogDevices == {devices[i] : i \in DOMAIN devices}

\* A caller enters swap_device(device).
CallSwapDevice ==
  /\ pc = "ready"
  /\ \E t \in Threads, device \in CatalogDevices :
       /\ threads[t].pc = "idle"
       /\ threads' = [threads EXCEPT ![t] =
            [IdleThread EXCEPT !.pc = "read", !.op = "swap_device",
                               !.target = device]]
       /\ overlapped' = (overlapped \/ OtherBusy(t))
  /\ UNCHANGED <<available, device_count, pc, devices, current, afBackend,
                 afDevice, last, loss>>

\* A caller enters swap_array_backend(&input, input_device, target_device)
\* with an array that was created under input_device.
CallSwapArrayBackend ==
  /\ pc = "ready"
  /\ \E t \in Threads, input_device \in CatalogDevices,
        target_device \in CatalogDevices :
       /\ threads[t].pc = "idle"
       /\ threads' = [threads EXCEPT ![t] =
            [IdleThread EXCEPT !.pc = "read", !.op = "swap_array_backend",
                               !.phase = 1, !.source = input_device,
                               !.target = target_device]]
       /\ overlapped' = (overlapped \/ OtherBusy(t))
  /\ UNCHANGED <<available, device_count, pc, devices, current, afBackend,
                 afDevice, last, loss>>

\* swap_device: let c = self.current.get(); the guard; the assert.
ReadCurrent ==
  /\ pc = "ready"
  /\ \E t \in Threads :
       /\ threads[t].pc = "read"
       /\ IF SwapGuard(current, DevOf(threads[t]))
          THEN IF contains(devices, DevOf(threads[t]))
               THEN /\ threads' = [threads EXCEPT ![t].pc = "set_backend"]
                    /\ pc' = pc
               ELSE /\ pc' = "panicked"
                    /\ threads' = threads
          ELSE /\ threads' = [threads EXCEPT ![t] = AfterSwap(threads[t])]
               /\ pc' = pc
  /\ UNCHANGED <<available, device_count, devices, current, afBackend,
                 afDevice, last, loss, overlapped>>

\* set_device: af::set_backend(device.backend)
SetBackend ==
  /\ pc = "ready"
  /\ \E t \in Threads, ok \in BOOLEAN :
       /\ threads[t].pc = "set_backend"
       /\ afBackend' = af_set_backend(Rt, DevOf(threads[t]).backend, ok).backend
       /\ pc' = IF ok THEN pc ELSE "panicked"
       /\ threads' = IF ok THEN [threads EXCEPT ![t].pc = "set_device"]
                     ELSE threads
  /\ UNCHANGED <<available, device_count, devices, current, afDevice, last,
                 loss, overlapped>>

\* set_device: af::set_device(device.id)
SetDevice ==
  /\ pc = "ready"
  /\ \E t \in Threads, ok \in BOOLEAN :
       /\ threads[t].pc = "set_device"
       /\ afDevice' = af_set_device(Rt, DevOf(threads[t]).id, ok).device
       /\ pc' = IF ok THEN pc ELSE "panicked"
       /\ threads' = IF ok THEN [threads EXCEPT ![t].pc = "store"]
                     ELSE threads
  /\ UNCHANGED <<available, device_count, devices, current, afBackend, last,
                 loss, overlapped>>

\* swap_device: self.current.set(device)
StoreCurrent ==
  /\ pc = "ready"
  /\ \E t \in Threads :
       /\ threads[t].pc = "store"
       /\ current' = DevOf(threads[t])
       /\ threads' = [threads EXCEPT ![t] = AfterSwap(threads[t])]
  /\ UNCHANGED <<available, device_count, pc, devices, afBackend, afDevice,
                 last, loss, overlapped>>

\* swap_array_backend: input.dims(), input.host(&mut buffer)
Download ==
  /\ pc = "ready"
  /\ \E t \in Threads, ok \in BOOLEAN, rejected \in BOOLEAN :
       /\ threads[t].pc = "host"
       /\ LET legal == threads[t].source = Active
              good == ok /\ (legal \/ ~rejected)
          IN  /\ pc' = IF good THEN pc ELSE "panicked"
              /\ threads' = [threads EXCEPT ![t] =
                   [@ EXCEPT !.pc = IF good THEN "read" ELSE @,
                             !.phase = IF good THEN 2 ELSE @,
                             !.hostCtx = Active]]
  /\ UNCHANGED <<available, device_count, devices, current, afBackend,
                 afDevice, last, loss, overlapped>>

\* swap_array_backend: Array::new(dims, &buffer, Aftype::F32)
Construct ==
  /\ pc = "ready"
  /\ \E t \in Threads, ok \in BOOLEAN :
       /\ threads[t].pc = "construct"
       /\ pc' = IF ok THEN pc ELSE "panicked"
       /\ threads' = [threads EXCEPT ![t] =
            [@ EXCEPT !.pc = IF ok THEN "done" ELSE @, !.newCtx = Active]]
  /\ UNCHANGED <<available, device_count, devices, current, afBackend,
                 afDevice, last, loss, overlapped>>

NextConc ==
  \/ CallSwapDevice \/ CallSwapArrayBackend \/ ReadCurrent \/ SetBackend
  \/ SetDevice \/ StoreCurrent \/ Download \/ Construct

SpecConc == InitConc /\ [][NextConc]_vars

----------------------------------------------------------------------------
\* Membership in the catalog of the handle.
InCatalog(d) == \E i \in DOMAIN devices : devices[i] = d

\* No runtime call of the logged operation failed.
NoFailure(events) == \A i \in DOMAIN events : events[i].ok

\* The handle exists and the process is alive.
Alive == pc \in {"returned", "ready"}

\* The log holds a successful backend switch directly followed by a
\* successful device switch for device d.
SwitchedTo(events, d) ==
  \E i \in 1..(Len(events) - 1) :
     /\ events[i] = Ev("set_backend", d.backend, -1, TRUE)
     /\ events[i + 1] = Ev("set_device", "-", d.id, TRUE)

\* Devices the environment reports in total.
RECURSIVE SumCounts(_)
SumCounts(i) ==
  IF i = 0 THEN 0 ELSE SumCounts(i - 1) + device_count[available[i]]

TotalDevices == SumCounts(Len(available))

\* C1: mirror invariant.  Whenever the handle exists and the process is
\* alive (after new() and after every completed swap_device or
\* swap_array_backend), the cached current device equals the runtime's
\* active (backend, device id) pair; and whenever an operation changed the
\* cached device, its log holds a successful backend switch followed by a
\* successful device switch for that device.
C1_Mirror ==
  /\ Alive => current = Active
  /\ (last.op # "none" /\ current # last.pre) => SwitchedTo(last.events, current)

\* C1 witness: a migration that moved the cached device has returned.
C1_Witness ==
  /\ pc = "returned"
  /\ last.op = "swap_array_backend"
  /\ current # last.pre
  /\ current = Active

\* C2: while the process is alive the cached current device is a member of
\* the catalog, whatever devices (registered or not) were passed.
C2_CurrentInCatalog == Alive => InCatalog(current)

\* C2 witness: a swap_device call with an unregistered device has returned.
C2_Witness ==
  /\ pc = "returned"
  /\ last.op = "swap_device"
  /\ ~InCatalog(last.device)
  /\ InCatalog(current)

\* C3: swap_device with a device that is not in the catalog never returns
\* normally.
C3_UnregisteredRejected ==
  (last.op = "swap_device" /\ ~InCatalog(last.device)) => pc = "panicked"

\* C4: when swap_array_backend(A, s, t) with catalog devices s and t
\* returns, the array was constructed while the runtime's active context
\* was t, the returned array is bound to t, and t is the active device.
C4_TargetBinding ==
  (/\ last.op = "swap_array_backend"
   /\ last.ok
   /\ InCatalog(last.source)
   /\ InCatalog(last.device))
  => /\ last.result.dev = last.device
     /\ last.events[Len(last.events)]
          = Ev("new", last.device.backend, last.device.id, TRUE)
     /\ Active = last.device
     /\ current = last.device

\* C5: when swap_array_backend(A, d1, d2) returns for an array A created
\* under catalog device d1 with contents v and a catalog device d2 # d1,
\* the returned array is under d2 and its contents equal v.
C5_RoundTrip ==
  (/\ last.op = "swap_array_backend"
   /\ last.ok
   /\ last.input.dev = last.source
   /\ InCatalog(last.device)
   /\ last.device # last.source)
  => /\ last.result.dev = last.device
     /\ last.result.data = last.input.data

\* C6: effective swap.  When the target is a catalog device that differs
\* from the cached device in both backend and id, swap_device issues the
\* backend switch with target.backend first and the device switch with
\* target.id second and nothing else; a failing call ends the process right
\* there with the cached device untouched; when the call returns both calls
\* were issued exactly once and current equals target.
C6_EffectiveSwap ==
  (/\ last.op = "swap_device"
   /\ InCatalog(last.device)
   /\ last.pre.backend # last.device.backend
   /\ last.pre.id # last.device.id)
  => LET ev == last.events
         n == Len(ev)
     IN  /\ n \in 1..2
         /\ ev[1] = Ev("set_backend", last.device.backend, -1, n = 2 \/ last.ok)
         /\ n = 2 => ev[2] = Ev("set_device", "-", last.device.id, last.ok)
         /\ last.ok => (n = 2 /\ current = last.device /\ Active = last.device)
         /\ ~last.ok => (current = last.pre /\ pc = "panicked")

\* C6 witness: an effective swap to a catalog device has returned.
C6_Witness ==
  /\ pc = "returned"
  /\ last.op = "swap_device"
  /\ last.pre.backend # last.device.backend
  /\ last.pre.id # last.device.id
  /\ current = last.device

\* C7: no-op swap.  swap_device(current) returns, issues no runtime call
\* and leaves the cached device, the runtime's context and the catalog
\* unchanged.
C7_NoOpSwap ==
  [][(last'.op = "swap_device" /\ last'.device = current)
       => /\ last'.events = <<>>
          /\ last'.ok
          /\ pc' = "returned"
          /\ UNCHANGED <<current, afBackend, afDevice, devices>>]_vars

\* C7 witness: swap_device(current) has returned.
C7_Witness ==
  /\ pc = "returned"
  /\ last.op = "swap_device"
  /\ last.device = last.pre
  /\ current = last.pre

\* The two devices differ in exactly one field.
SingleAxis(c, d) ==
  \/ c.backend = d.backend /\ c.id # d.id
  \/ c.backend # d.backend /\ c.id = d.id

\* C8: single-axis skip.  When the target differs from the cached device in
\* exactly one field, swap_device returns without any runtime switch call
\* and leaves the cached device and the runtime's context unchanged.
C8_SingleAxisSkip ==
  [][(last'.op = "swap_device" /\ SingleAxis(current, last'.device))
       => /\ last'.events = <<>>
          /\ last'.ok
          /\ pc' = "returned"
          /\ UNCHANGED <<current, afBackend, afDevice>>]_vars

\* C8 witness: a swap to a catalog device that differs in one field has
\* returned with the cached device still the old one.
C8_Witness ==
  /\ pc = "returned"
  /\ last.op = "swap_device"
  /\ InCatalog(last.device)
  /\ SingleAxis(last.pre, last.device)
  /\ current = last.pre
  /\ current # last.device

\* C9: initial device.  When new() returns, the cached device is the last
\* element of the catalog and the runtime's active backend and device id
\* are that element's fields.
C9_InitialDevice ==
  (last.op = "new" /\ last.ok)
  => /\ current = devices[Len(devices)]
     /\ afBackend = current.backend
     /\ afDevice[afBackend] = current.id

\* C9 witness: new() has returned although the enumeration ended on a
\* backend other than that of the last catalog device.
C9_Witness ==
  /\ pc = "returned"
  /\ last.op = "new"
  /\ Len(devices) > 1
  /\ available[Len(available)] # current.backend

\* C10: startup outcome.  When no runtime call fails, new() returns a
\* handle with a non-empty catalog exactly when the backends report at least
\* one device in total; when they report none, new() ends the process and no
\* handle ever exists.
C10_StartupOutcome ==
  /\ (last.op = "new" /\ NoFailure(last.events))
       => ((pc = "returned" /\ Len(devices) > 0) <=> TotalDevices >= 1)
  /\ (last.op = "new" /\ TotalDevices = 0) => pc = "panicked"
  /\ TotalDevices = 0 => (pc \in {"start", "panicked"} /\ devices = <<>>)
  /\ Alive => Len(devices) > 0

\* C10 witness: new() ended the process because the available backends
\* report no device at all, every runtime call having succeeded.
C10_Witness ==
  /\ pc = "panicked"
  /\ last.op = "new"
  /\ Len(available) >= 1
  /\ TotalDevices = 0
  /\ NoFailure(last.events)
  /\ Len(last.events) = 1 + 2 * Len(available)

\* The two devices differ in both fields.
BothAxes(c, d) == c.backend # d.backend /\ c.id # d.id

\* A migration of an array created under catalog device d1 from d1 to d1
\* has returned.
SameDeviceMigration ==
  /\ last.op = "swap_array_backend"
  /\ last.ok
  /\ last.source = last.device
  /\ last.input.dev = last.source

FailedSwitch(events) ==
  \E i \in DOMAIN events :
     events[i].call \in {"set_backend", "set_device"} /\ ~events[i].ok

\* C12: a failing backend switch or device switch during new() or
\* swap_device ends the process: the operation does not return, the failing
\* call is the last one issued (no retry), and the cached device is not the
\* device whose activation failed: after new() no handle exists, after
\* swap_device the cached device is what it was before the call.
C12_ActivationFailureFatal ==
  (last.op \in {"new", "swap_device"} /\ FailedSwitch(last.events))
  => /\ pc = "panicked"
     /\ ~last.ok
     /\ \A i \in DOMAIN last.events :
          ~last.events[i].ok => i = Len(last.events)
     /\ current = last.pre
     /\ last.op = "new" => (current = NoDevice /\ devices = <<>>)
     /\ last.op = "swap_device" => current # last.device

\* C12 witness: swap_device panicked on the device switch after the backend
\* switch had succeeded.
C12_Witness ==
  /\ pc = "panicked"
  /\ last.op = "swap_device"
  /\ Len(last.events) = 2
  /\ last.events[1].ok
  /\ ~last.events[2].ok
  /\ afBackend = last.device.backend
  /\ current = last.pre

\* C14: within swap_array_backend(A, s, t) with catalog devices s and t the
\* download to the host buffer runs while the runtime's active context is
\* s, after the switch to the source and before the switch to the target
\* and the construction.
C14_LegalReadout ==
  (/\ last.op = "swap_array_backend"
   /\ InCatalog(last.source)
   /\ InCatalog(last.device))
  => \A i \in DOMAIN last.events :
       last.events[i].call = "host"
       => /\ Device(last.events[i].backend, last.events[i].id) = last.source
          /\ \A j \in DOMAIN last.events :
               (last.events[j].call = "new") => j > i

\* C15: catalog frame.  Once new() has run, no step (a swap_device or
\* swap_array_backend call, skipped, effective or fatal) changes the
\* catalog.
C15_CatalogFrame == [][pc # "start" => devices' = devices]_vars

\* C15 witness: a migration that moved the cached device ended fatally and
\* the catalog is still the enumerated one.
C15_Witness ==
  /\ pc = "panicked"
  /\ last.op = "swap_array_backend"
  /\ current # last.pre
  /\ Len(devices) >= 2
  /\ devices = Enumerate(available, device_count, Len(available))

\* C16: catalog enumeration.  While the handle exists the catalog is the
\* concatenation, in the order the backends are reported, of the devices
\* (b, 0), ..., (b, device_count(b) - 1) of each backend b: its length is
\* the total device count, the devices of the k-th backend follow those of
\* the backends before it, and no device occurs twice.
C16_CatalogEnumeration ==
  Alive
  => /\ Len(devices) = TotalDevices
     /\ \A k \in DOMAIN available :
          \A i \in 0..(device_count[available[k]] - 1) :
             devices[SumCounts(k - 1) + i + 1] = Device(available[k], i)
     /\ \A i, j \in DOMAIN devices : i # j => devices[i] # devices[j]

\* C16 witness: new() has returned in an environment of two backends, each
\* with devices.
C16_Witness ==
  /\ pc = "returned"
  /\ last.op = "new"
  /\ Len(available) = 2
  /\ device_count[available[1]] >= 1
  /\ device_count[available[2]] >= 2
  /\ Len(devices) >= 3

\* Every two catalog devices share their backend or their id.
Frozen ==
  \A i, j \in DOMAIN devices :
     devices[i].backend = devices[j].backend \/ devices[i].id = devices[j].id

\* C18: frozen active device.  When every two catalog devices share a
\* backend or an id, the cached device and the runtime's active context
\* stay the initial device (the last of the catalog) whatever calls are
\* made, and no call issues a runtime switch.
C18_FrozenActiveDevice ==
  (devices # <<>> /\ Frozen)
  => /\ current = devices[Len(devices)]
     /\ Active = current
     /\ last.op \in {"swap_device", "swap_array_backend"}
          => \A i \in DOMAIN last.events :
               last.events[i].call \notin {"set_backend", "set_device"}

\* C18 witness: in such an environment a migration between two different
\* catalog devices, the target not being the cached device, has returned.
C18_Witness ==
  /\ pc = "returned"
  /\ Frozen
  /\ last.op = "swap_array_backend"
  /\ InCatalog(last.source)
  /\ InCatalog(last.device)
  /\ last.source # last.device
  /\ last.device # current

\* C19: swap_device is idempotent.  In the state a swap_device(d) call that
\* returned has left, a repeated swap_device(d) returns, issues no runtime
\* call and leaves the cached device and the runtime as they are, whichever
\* runtime call would fail.
C19_Idempotent ==
  (pc = "returned" /\ last.op = "swap_device")
  => \A fail \in 0..2 :
       swap_device(devices, current, Rt, last.device, fail)
         = [current |-> current, rt |-> Rt, events |-> <<>>, ok |-> TRUE]

\* C19 witness: an effective swap_device(d) has returned and its
\* repetition issues no call.
C19_Witness ==
  /\ pc = "returned"
  /\ last.op = "swap_device"
  /\ Len(last.events) = 2
  /\ current = last.device
  /\ swap_device(devices, current, Rt, last.device, 0).events = <<>>

\* The names the dispatchers recognize.
RecognizedLoss == {"l2", "mse", "cross_entropy"}

\* C13: unknown loss name.  For every name other than "l2", "mse" and
\* "cross_entropy", get_loss, get_loss_vec and get_loss_derivative return
\* the error value HALError::UNKNOWN; for the three recognized names they
\* never return the error, and return a result when the runtime's array
\* operations succeed.
C13_UnknownLossName ==
  loss.fn \in {"get_loss", "get_loss_vec", "get_loss_derivative"}
  => IF loss.name \in RecognizedLoss
     THEN loss.out.tag \in {"Ok", "Panic"}
     ELSE loss.out.tag = "Err" /\ loss.out.val = "UNKNOWN"

\* C13 witness: get_loss("bogus", pred, target) has returned the error.
C13_Witness ==
  /\ loss.fn = "get_loss"
  /\ loss.name = "bogus"
  /\ loss.out.tag = "Err"

\* The download or the construction of a caller's migration has run while
\* the runtime's active context was not the device the call asked for.
WrongContext(th) ==
  \/ th.hostCtx # NoDevice /\ th.hostCtx # th.source
  \/ th.newCtx # NoDevice /\ th.newCtx # th.target

\* No caller is inside a call.
Quiescent == \A t \in Threads : threads[t].pc \in {"idle", "done"}

\* C17: unserialized access is unsafe, serialized access is safe.  As long
\* as every call has run to completion before the next one started, no
\* download or construction has run under a device other than the one its
\* call asked for, and between calls the cached device equals the runtime's
\* active context.
C17_SerializedSafe ==
  ~overlapped
  => /\ \A t \in Threads : ~WrongContext(threads[t])
     /\ Quiescent => current = Active

\* The states C17 says interleaving reaches: both calls are over, one has
\* downloaded or constructed under a device it did not ask for, and the
\* cached device differs from the runtime's active context.
C17_InterleavedUnsafe ==
  /\ pc = "ready"
  /\ overlapped
  /\ Quiescent
  /\ \E t \in Threads : WrongContext(threads[t])
  /\ current # Active

====
